---- MODULE Spec2Model ----
(***************************************************************************)
(* Model of the boleto life cycle of the FIDC middleware (src/app.py,      *)
(* src/models.py): the nosso-numero counter of a BankConfig, the requests  *)
(* that generate, approve, register and cancel boletos, and the admin      *)
(* edit of the counter triple; and of the functions of src/services.py,    *)
(* src/utils.py and src/validation.py that build the CNAB files, the       *)
(* barcode and the check digits and that read the fiscal XML documents.    *)
(*                                                                         *)
(* The committed database is the variables cfg, boletos and invoices; the  *)
(* upload folder is pdfs; req[r] is the state of a generate_boleto         *)
(* request: what its session has read so far and, once it has ended, what  *)
(* it reported.  Nothing a session flushes is visible in the committed     *)
(* variables before db.session.commit().                                   *)
(***************************************************************************)
EXTENDS Integers, Sequences, FiniteSets, TLC

\* ------------------------------------------------------------------ bounds
MaxBoletos == 3      \* rows of the boleto table the model lets exist

\* ------------------------------------------------------- program fixtures
\* init_db: one cedente (with a bank_config row per bank), one agente
CedenteId == 1
AgenteId == 2
AdminId == 3
Banks == {"santander", "bmp"}
CfgKeys == {<<CedenteId, b>> : b \in Banks}

\* two request-handling threads
Reqs == {1, 2}

\* init_db seeds current = min and a window of its own for each bank.  The
\* windows are scaled to the model: the santander window can be used up
\* within MaxBoletos rows, the bmp window cannot.
MinNN == 1
InitMaxNN(b) ==
  IF b = "santander" THEN MinNN + MaxBoletos - 2 ELSE MinNN + MaxBoletos

\* a second cedente, added to the user table after init_db
Cedente2Id == AdminId + 1
Cedentes == {CedenteId, Cedente2Id}

\* invoice table: the columns that never change after creation
InvoiceIds == {1, 2, 3}
\* save_invoice: user_id = current_user.id; invoice 3 was uploaded by the
\* second cedente
InvUser(i) == IF i = 3 THEN Cedente2Id ELSE CedenteId
InvDoc(i) == IF i = 2 THEN "docB" ELSE "docA"
InvAmount(i) == IF i = 1 THEN 1 ELSE IF i = 2 THEN 2 ELSE 4

BankCode(b) == IF b = "santander" THEN "033" ELSE "274"

VARIABLES cfg, boletos, invoices, pdfs, req, remessa, cnab, calc

vars == <<cfg, boletos, invoices, pdfs, req, remessa, cnab, calc>>

db == <<cfg, boletos, invoices>>

\* --------------------------------------------------------------- helpers
MaxOf(S) == IF S = {} THEN 0 ELSE CHOOSE x \in S : \A y \in S : y <= x

RECURSIVE SumAmount(_)
SumAmount(S) ==
  IF S = {} THEN 0
  ELSE LET i == CHOOSE x \in S : TRUE IN InvAmount(i) + SumAmount(S \ {i})

SeqRange(s) == {s[n] : n \in 1..Len(s)}

\* grouped = {} ; for inv in invoices: grouped[inv.sacado_doc].append(inv)
\* -- the payer documents in order of first occurrence (rows come by id)
RECURSIVE GroupDocsUpTo(_, _)
GroupDocsUpTo(ids, n) ==
  IF n = 0 THEN <<>>
  ELSE LET prev == GroupDocsUpTo(ids, n - 1) IN
       IF n \in ids /\ InvDoc(n) \notin SeqRange(prev)
       THEN Append(prev, InvDoc(n)) ELSE prev

GroupDocs(ids) == GroupDocsUpTo(ids, MaxOf(InvoiceIds))

IdleReq ==
  [pc |-> "idle", user |-> 0, bank |-> "", ids |-> {}, cur |-> 0, max |-> 0,
   groups |-> 0, alloc |-> <<>>, exhausted |-> FALSE]

\* boleto rows the requests that passed validation may still insert
RECURSIVE SumReserved(_)
SumReserved(R) ==
  IF R = {} THEN 0
  ELSE LET r == CHOOSE x \in R : TRUE IN
       (IF req[r].pc = "validated" THEN Len(GroupDocs(req[r].ids)) ELSE 0)
         + SumReserved(R \ {r})

BoletoRow(p) ==
  [user_id |-> p.user_id, sacado_doc |-> p.sacado_doc, amount |-> p.amount,
   nosso_numero |-> p.nosso_numero, bank |-> p.bank, status |-> p.status,
   deleted_at |-> 0, deleted_by |-> 0]

\* deleted_at = datetime.utcnow(): the column is 0 while it is NULL and
\* every write stamps it with a value it did not hold before
Stamp(deleted_at) == deleted_at + 1

\* no remittance requested yet / no CNAB text built yet
NoRemessa ==
  [ok |-> FALSE, bank |-> "", user |-> 0, seq |-> 0, header_seq |-> 0,
   ids |-> <<>>]

\* args: the arguments of the call, lines and content: what it returned
NoCnab ==
  [kind |-> "", args |-> <<>>, n |-> 0, raised |-> FALSE, lines |-> <<>>,
   content |-> ""]

\* no function of the services called yet: fn names the function, args its
\* arguments, out what it returned
NoCalc == [fn |-> "", args |-> <<>>, done |-> FALSE, out |-> <<>>]

\* ------------------------------------------------------------------ Init
Init ==
  /\ cfg = [k \in CfgKeys |->
              [current |-> MinNN, min |-> MinNN, max |-> InitMaxNN(k[2]),
               is_active |-> TRUE]]
  /\ boletos = <<>>
  /\ invoices = [i \in InvoiceIds |->
                   [boleto_id |-> 0, status |-> "pending", deleted_at |-> 0,
                    deleted_by |-> 0]]
  /\ pdfs = {}
  /\ req = [r \in Reqs |-> IdleReq]
  /\ remessa = NoRemessa
  /\ cnab = NoCnab
  /\ calc = NoCalc

\* ------------------------------------------------ generate_boleto request
\* validate_bank_selection
BankSelectionValid(u, b) ==
  <<u, b>> \in DOMAIN cfg /\ cfg[<<u, b>>].is_active

\* the form checks passing for a bank that has a configuration, enabled or
\* not
generate_boleto_validate_disabled(r, u, ids, b) ==
  /\ req[r].pc = "idle"
  /\ ids # {}
  /\ b \in Banks
  /\ <<u, b>> \in DOMAIN cfg
  /\ Cardinality(DOMAIN boletos) + SumReserved(Reqs) + Len(GroupDocs(ids))
       <= MaxBoletos
  /\ req' = [req EXCEPT ![r] =
               [IdleReq EXCEPT !.pc = "validated", !.user = u, !.bank = b,
                               !.ids = ids,
                               !.cur = cfg[<<u, b>>].current,
                               !.max = cfg[<<u, b>>].max]]
  /\ UNCHANGED <<cfg, boletos, invoices, pdfs, remessa, cnab, calc>>

\* lines 371-386: the form checks and validate_bank_selection pass.  The
\* bank_config row read here is not locked; it enters the session of the
\* request.
generate_boleto_validate(r, u, ids, b) ==
  /\ req[r].pc = "idle"
  /\ ids # {}
  /\ b \in Banks
  /\ BankSelectionValid(u, b)
  /\ Cardinality(DOMAIN boletos) + SumReserved(Reqs) + Len(GroupDocs(ids))
       <= MaxBoletos
  /\ req' = [req EXCEPT ![r] =
               [IdleReq EXCEPT !.pc = "validated", !.user = u, !.bank = b,
                               !.ids = ids,
                               !.cur = cfg[<<u, b>>].current,
                               !.max = cfg[<<u, b>>].max]]
  /\ UNCHANGED <<cfg, boletos, invoices, pdfs, remessa, cnab, calc>>

\* lines 374-386: nothing selected, unknown bank, configuration missing or
\* bank disabled -> flash and redirect
generate_boleto_reject(r, u, ids, b) ==
  /\ req[r].pc = "idle"
  /\ ids = {} \/ b \notin Banks \/ ~BankSelectionValid(u, b)
  /\ req' = [req EXCEPT ![r] = [IdleReq EXCEPT !.pc = "rejected"]]
  /\ UNCHANGED <<cfg, boletos, invoices, pdfs, remessa, cnab, calc>>

\* lines 414-520: the loop over the payer groups, from group g on.
\*   s.cur      bank_config.current_nosso_numero of the session
\*   s.new      the Boleto rows flushed so far (with the invoices linked)
\*   s.written  the PDF files saved so far
\* failAt is the group whose build raises (after the allocation of lines
\* 421-422, before its PDF is saved); 0 when none does.
\* the range check off by one: the last number of the window is refused
LimitReachedEarly(current_nosso_numero, max_nosso_numero) ==
  current_nosso_numero >= max_nosso_numero

\* line 416: the range check made before each allocation
LimitReached(current_nosso_numero, max_nosso_numero) ==
  current_nosso_numero > max_nosso_numero

RECURSIVE GroupLoop(_, _, _, _, _, _, _)
GroupLoop(s, g, groups, user, bank, ids, failAt) ==
  IF g > Len(groups)
  THEN [cur |-> s.cur, new |-> s.new, written |-> s.written,
        exhausted |-> FALSE, raised |-> FALSE]
  ELSE IF LimitReached(s.cur, s.max)
  THEN [cur |-> s.cur, new |-> s.new, written |-> s.written,
        exhausted |-> TRUE, raised |-> FALSE]
  ELSE LET doc == groups[g]
           inv_list == {i \in ids : InvDoc(i) = doc}
           nosso_numero == s.cur
           boleto == [id |-> s.nextId, user_id |-> user, sacado_doc |-> doc,
                      amount |-> SumAmount(inv_list),
                      nosso_numero |-> nosso_numero, bank |-> BankCode(bank),
                      status |-> "printed", invs |-> inv_list]
       IN IF g = failAt
          THEN [cur |-> s.cur + 1, new |-> s.new, written |-> s.written,
                exhausted |-> FALSE, raised |-> TRUE]
          ELSE GroupLoop([cur |-> s.cur + 1, max |-> s.max,
                          new |-> Append(s.new, boleto),
                          written |-> s.written \cup {boleto.id},
                          nextId |-> s.nextId + 1],
                         g + 1, groups, user, bank, ids, failAt)

\* the counter persisted one past the value the session reached
CommitCounterSkips(k, out) ==
  cfg' = IF out.new # <<>> THEN [cfg EXCEPT ![k].current = out.cur + 1]
         ELSE cfg

\* line 523: db.session.commit(), the UPDATE of the changed counter column
CommitCounter(k, out) ==
  cfg' = IF out.new # <<>> THEN [cfg EXCEPT ![k].current = out.cur] ELSE cfg

\* line 523: db.session.commit(), the INSERT of the boletos and the UPDATE
\* of the linked invoices
CommitRows(out) ==
  LET new == out.new
      newIds == {new[n].id : n \in 1..Len(new)}
      byId(id) == new[CHOOSE n \in 1..Len(new) : new[n].id = id]
      linked(i) == {n \in 1..Len(new) : i \in new[n].invs}
  IN
  /\ boletos' = [id \in DOMAIN boletos \cup newIds |->
                   IF id \in newIds THEN BoletoRow(byId(id))
                   ELSE boletos[id]]
  /\ invoices' = [i \in InvoiceIds |->
                    IF linked(i) # {}
                    THEN [invoices[i] EXCEPT
                            !.boleto_id = new[CHOOSE n \in linked(i) : TRUE].id,
                            !.status = "boleto_generated"]
                    ELSE invoices[i]]

\* a failed request that keeps the counter it flushed
RollbackKeepsCounter(k, out) ==
  /\ cfg' = [cfg EXCEPT ![k].current = out.cur]
  /\ UNCHANGED <<boletos, invoices>>

\* lines 526-531: db.session.rollback() -- what the session flushed (the
\* counter, the boletos, the links) is discarded; the files in the upload
\* folder are not touched
Rollback(k, out) == UNCHANGED <<cfg, boletos, invoices>>

\* lines 388-531: the transaction of the request, from the
\* SELECT ... FOR UPDATE of the bank_config row to commit or rollback.  The
\* row lock makes this span one step with respect to the other requests.
\* A row that matches an instance already present in the session does not
\* overwrite its loaded attributes (the query has no populate_existing), so
\* the counter the loop works on is the one validate_bank_selection read;
\* when that instance has already been dropped from the weak identity map
\* the row is loaded afresh.  Both outcomes are modelled (fresh).
\* failAt: 0 = nothing raises, g = building group g raises,
\* Len(groups) + 1 = the commit raises.
generate_boleto_run(r, fresh, failAt) ==
  LET k == <<req[r].user, req[r].bank>>
      groups == GroupDocs(req[r].ids)
      s0 == [cur |-> IF fresh THEN cfg[k].current ELSE req[r].cur,
             max |-> IF fresh THEN cfg[k].max ELSE req[r].max,
             new |-> <<>>, written |-> {},
             nextId |-> 1 + MaxOf(DOMAIN boletos)]
      out == GroupLoop(s0, 1, groups, req[r].user, req[r].bank, req[r].ids,
                       failAt)
      fails == out.raised \/ failAt = Len(groups) + 1
  IN
  /\ req[r].pc = "validated"
  /\ failAt \in 0..(Len(groups) + 1)
  /\ pdfs' = pdfs \cup out.written
  /\ IF fails THEN Rollback(k, out)
     ELSE CommitCounter(k, out) /\ CommitRows(out)
  /\ req' = [req EXCEPT ![r].pc = IF fails THEN "failed" ELSE "committed",
                        ![r].ids = {},
                        ![r].cur = out.cur,
                        ![r].max = s0.max,
                        ![r].groups = Len(groups),
                        ![r].alloc = [n \in 1..Len(out.new) |->
                                        out.new[n].nosso_numero],
                        ![r].exhausted = out.exhausted]
  /\ UNCHANGED <<remessa, cnab, calc>>

\* line 533 (and the early returns): the redirect ends the request
generate_boleto_respond(r) ==
  /\ req[r].pc \in {"rejected", "committed", "failed"}
  /\ req' = [req EXCEPT ![r] = IdleReq]
  /\ UNCHANGED <<cfg, boletos, invoices, pdfs, remessa, cnab, calc>>

FormBanks == Banks \cup {"other"}
MaxGroups == Cardinality({InvDoc(i) : i \in InvoiceIds})

\* the steps of request r of the logged-in cedente u, its form drawn from
\* the given sets
generate_boleto_as(r, u, idSets, formBanks) ==
  \/ \E ids \in idSets, b \in formBanks :
       generate_boleto_validate(r, u, ids, b)
  \/ \E ids \in idSets, b \in formBanks :
       generate_boleto_reject(r, u, ids, b)
  \/ \E fresh \in BOOLEAN, failAt \in 0..(MaxGroups + 1) :
       generate_boleto_run(r, fresh, failAt)
  \/ generate_boleto_respond(r)

generate_boleto_from(r, idSets, formBanks) ==
  generate_boleto_as(r, CedenteId, idSets, formBanks)

generate_boleto(r) == generate_boleto_from(r, SUBSET InvoiceIds, FormBanks)

\* the requests one after the other
generate_boleto_serial ==
  \E r \in Reqs :
     /\ \A q \in Reqs \ {r} : req[q].pc = "idle"
     /\ generate_boleto(r)

NextSerial == generate_boleto_serial

SpecSerial == Init /\ [][NextSerial]_vars

\* any interleaving of the steps of the generate_boleto requests
NextGenerate == \E r \in Reqs : generate_boleto(r)

SpecGenerate == Init /\ [][NextGenerate]_vars

\* ------------------------------------------------------- agente requests
\* get_active_boletos(): the rows with deleted_at = None
ActiveBoletos == {id \in DOMAIN boletos : boletos[id].deleted_at = 0}

\* the approval that does not look at the status of the selected boletos
approve_boletos_any_status(boleto_ids) ==
  /\ boleto_ids # {}
  /\ boletos' = [id \in DOMAIN boletos |->
                   IF id \in ActiveBoletos \cap boleto_ids
                   THEN [boletos[id] EXCEPT !.status = "approved"]
                   ELSE boletos[id]]
  /\ UNCHANGED <<cfg, invoices, pdfs, req, remessa, cnab, calc>>

\* lines 646-660: selected active boletos in 'pending' or 'printed' become
\* 'approved'
approve_boletos(boleto_ids) ==
  /\ boleto_ids # {}
  /\ boletos' = [id \in DOMAIN boletos |->
                   IF /\ id \in ActiveBoletos \cap boleto_ids
                      /\ boletos[id].status \in {"pending", "printed"}
                   THEN [boletos[id] EXCEPT !.status = "approved"]
                   ELSE boletos[id]]
  /\ UNCHANGED <<cfg, invoices, pdfs, req, remessa, cnab, calc>>

\* lines 700-721: the approved boletos of the bank, newest first, grouped
\* by cedente; the first group is the one emitted
RemessaGroup(bank_code) ==
  LET sel == {id \in ActiveBoletos : /\ boletos[id].status = "approved"
                                     /\ boletos[id].bank = bank_code}
      cedente_id == boletos[MaxOf(sel)].user_id
  IN IF sel = {} THEN {}
     ELSE {id \in sel : boletos[id].user_id = cedente_id}

\* order_by(Boleto.created_at.desc()): the rows come newest first, and a
\* row inserted later has the larger id
RECURSIVE NewestFirst(_)
NewestFirst(S) ==
  IF S = {} THEN <<>> ELSE <<MaxOf(S)>> \o NewestFirst(S \ {MaxOf(S)})

\* lines 711-721: boleto_group, the list handed to the CNAB emitter
RemessaList(bank_code) == NewestFirst(RemessaGroup(bank_code))

\* services.py 287-292: the Segment Q of a boleto without invoices reads
\* inv.sacado_zip of None and raises; the BMP detail guards that case
EmitterRaises(bank_code) ==
  /\ bank_code = "033"
  /\ \E id \in RemessaGroup(bank_code) :
        \A i \in InvoiceIds : invoices[i].boleto_id # id

\* the route registering every approved boleto of the bank, whatever its
\* cedente, while the file holds the first group only
generate_remessa_all_cedentes(bank_code, emitted) ==
  LET sel == {id \in ActiveBoletos : /\ boletos[id].status = "approved"
                                     /\ boletos[id].bank = bank_code}
      boleto_group == RemessaList(bank_code)
      done == emitted /\ ~EmitterRaises(bank_code) /\ sel # {}
  IN
  /\ boletos' = [id \in DOMAIN boletos |->
                   IF done /\ id \in sel
                   THEN [boletos[id] EXCEPT !.status = "registered"]
                   ELSE boletos[id]]
  /\ remessa' = IF done
                THEN [ok |-> TRUE, bank |-> bank_code,
                      user |-> boletos[boleto_group[1]].user_id,
                      seq |-> Len(boleto_group), header_seq |-> 1,
                      ids |-> boleto_group]
                ELSE NoRemessa
  /\ UNCHANGED <<cfg, invoices, pdfs, req, cnab, calc>>

\* lines 700-778: without approved boletos of the bank the request only
\* flashes a message; otherwise the file of the first group is emitted, its
\* boletos are registered and the file is returned.  When the emitter or
\* the commit raises (emitted = FALSE) the session is rolled back and no
\* file is returned.
\*   seq         the NNNN of the file name (line 742), len(boleto_group)
\*   header_seq  the sequential number the emitter writes in the headers
\*               (services.py 145, 169, 381)
generate_remessa_by_bank(bank_code, emitted) ==
  LET boleto_group == RemessaList(bank_code)
      done == emitted /\ ~EmitterRaises(bank_code) /\ boleto_group # <<>>
  IN
  /\ boletos' = [id \in DOMAIN boletos |->
                   IF done /\ id \in SeqRange(boleto_group)
                   THEN [boletos[id] EXCEPT !.status = "registered"]
                   ELSE boletos[id]]
  /\ remessa' = IF done
                THEN [ok |-> TRUE, bank |-> bank_code,
                      user |-> boletos[boleto_group[1]].user_id,
                      seq |-> Len(boleto_group), header_seq |-> 1,
                      ids |-> boleto_group]
                ELSE NoRemessa
  /\ UNCHANGED <<cfg, invoices, pdfs, req, cnab, calc>>

\* ------------------------------------------------------- cancel requests
\* lines 846-863 / 890-908: soft delete, status 'cancelled', unlink invoices
CancelWrite(boleto_id, by) ==
  /\ boletos' = [boletos EXCEPT ![boleto_id].deleted_at = Stamp(@),
                                ![boleto_id].deleted_by = by,
                                ![boleto_id].status = "cancelled"]
  /\ invoices' = [i \in InvoiceIds |->
                    IF invoices[i].boleto_id = boleto_id
                    THEN [invoices[i] EXCEPT !.boleto_id = 0,
                                             !.status = "pending"]
                    ELSE invoices[i]]

\* lines 829-863
cancel_boleto(u, boleto_id) ==
  /\ boleto_id \in DOMAIN boletos
  /\ IF \/ boletos[boleto_id].user_id # u
        \/ boletos[boleto_id].deleted_at # 0
        \/ boletos[boleto_id].status = "registered"
     THEN UNCHANGED <<boletos, invoices>>
     ELSE CancelWrite(boleto_id, u)
  /\ UNCHANGED <<cfg, pdfs, req, remessa, cnab, calc>>

\* the cancel route of the agente without its "already cancelled" check
agente_cancel_boleto_unchecked(boleto_id) ==
  /\ boleto_id \in DOMAIN boletos
  /\ IF boletos[boleto_id].status = "registered"
     THEN UNCHANGED <<boletos, invoices>>
     ELSE CancelWrite(boleto_id, AgenteId)
  /\ UNCHANGED <<cfg, pdfs, req, remessa, cnab, calc>>

\* lines 878-908
agente_cancel_boleto(boleto_id) ==
  /\ boleto_id \in DOMAIN boletos
  /\ IF \/ boletos[boleto_id].deleted_at # 0
        \/ boletos[boleto_id].status = "registered"
     THEN UNCHANGED <<boletos, invoices>>
     ELSE CancelWrite(boleto_id, AgenteId)
  /\ UNCHANGED <<cfg, pdfs, req, remessa, cnab, calc>>

\* ------------------------------------------------------- delete_invoice
\* lines 788-811: the owner soft-deletes an invoice that is not deleted
\* yet and has no boleto_id; any other request only flashes a message
delete_invoice(u, invoice_id) ==
  /\ invoice_id \in InvoiceIds
  /\ IF \/ InvUser(invoice_id) # u
        \/ invoices[invoice_id].deleted_at # 0
        \/ invoices[invoice_id].boleto_id # 0
     THEN UNCHANGED invoices
     ELSE invoices' = [invoices EXCEPT
                         ![invoice_id].deleted_at = Stamp(@),
                         ![invoice_id].deleted_by = u]
  /\ UNCHANGED <<cfg, boletos, pdfs, req, remessa, cnab, calc>>

\* --------------------------------------------------------- admin request
\* values the admin form carries for min_nn / max_nn / current_nn
FormValues == {MinNN, MinNN + 1}

\* lines 1072-1107: the counter triple and the active flag of a bank are
\* written as submitted (the fields of the other bank are resubmitted
\* unchanged)
admin_edit_user(u, b, min_nn, max_nn, current_nn, active) ==
  /\ <<u, b>> \in CfgKeys
  /\ cfg' = [cfg EXCEPT ![<<u, b>>] =
               [current |-> current_nn, min |-> min_nn, max |-> max_nn,
                is_active |-> active]]
  /\ UNCHANGED <<boletos, invoices, pdfs, req, remessa, cnab, calc>>

\* the requests other than generate_boleto and the admin edit
lifecycle ==
  \/ \E ids \in SUBSET DOMAIN boletos : approve_boletos(ids)
  \/ \E b \in Banks, emitted \in BOOLEAN :
       generate_remessa_by_bank(BankCode(b), emitted)
  \/ \E id \in DOMAIN boletos : cancel_boleto(CedenteId, id)
  \/ \E id \in DOMAIN boletos : agente_cancel_boleto(id)

\* the life cycle of the boletos: generation, approval, remittance, cancel
Next ==
  \/ generate_boleto_serial
  \/ lifecycle

Spec == Init /\ [][Next]_vars

\* the life cycle on one bank together with the admin edit of its counter
NextAdmin ==
  \/ \E r \in Reqs :
       /\ \A q \in Reqs \ {r} : req[q].pc = "idle"
       /\ generate_boleto_from(r, {{1}, {1, 2}}, {"santander"})
  \/ lifecycle
  \/ \E mn \in FormValues, mx \in FormValues, c \in FormValues,
        active \in BOOLEAN :
       admin_edit_user(CedenteId, "santander", mn, mx, c, active)

SpecAdmin == Init /\ [][NextAdmin]_vars

\* the invoices of the cedentes: generation, soft delete, cancellation
NextInvoice ==
  \/ \E r \in Reqs :
       /\ \A q \in Reqs \ {r} : req[q].pc = "idle"
       /\ generate_boleto_from(r, {{}, {1}, {1, 2}, {1, 3}}, {"bmp"})
  \/ \E u \in Cedentes, i \in InvoiceIds : delete_invoice(u, i)
  \/ \E id \in DOMAIN boletos : cancel_boleto(CedenteId, id)
  \/ \E id \in DOMAIN boletos : agente_cancel_boleto(id)

SpecInvoice == Init /\ [][NextInvoice]_vars

\* a database with two cedentes, each with its bank_config rows
InitRemessa ==
  /\ cfg = [k \in {<<u, b>> : u \in Cedentes, b \in Banks} |->
              [current |-> MinNN, min |-> MinNN, max |-> InitMaxNN(k[2]),
               is_active |-> TRUE]]
  /\ boletos = <<>>
  /\ invoices = [i \in InvoiceIds |->
                   [boleto_id |-> 0, status |-> "pending", deleted_at |-> 0,
                    deleted_by |-> 0]]
  /\ pdfs = {}
  /\ req = [r \in Reqs |-> IdleReq]
  /\ remessa = NoRemessa
  /\ cnab = NoCnab
  /\ calc = NoCalc

\* boletos of two cedentes generated, approved and registered
NextRemessa ==
  \/ \E u \in Cedentes :
       generate_boleto_as(1, u, {{}, {1}, {2}}, {"santander"})
  \/ \E ids \in SUBSET DOMAIN boletos : approve_boletos(ids)
  \/ \E b \in Banks, emitted \in BOOLEAN :
       generate_remessa_by_bank(BankCode(b), emitted)

SpecRemessa == InitRemessa /\ [][NextRemessa]_vars

\* the status of the boletos of one bank: generation by one request at a
\* time, approval, remittance and the two cancel routes
NextStatus ==
  \/ generate_boleto_from(1, {{}, {1}, {1, 2}}, {"bmp"})
  \/ lifecycle

SpecStatus == Init /\ [][NextStatus]_vars

\* ------------------------------------- the requests step by step
\* Each request first loads the boletos it works on into its session and
\* later flushes and commits what it changed; no row is locked in between,
\* so another request may commit between the two steps.  req[r] holds what
\* thread r has loaded: ids (alloc for the list of a remittance), and in
\* user who cancels.
\* line 647: the selected active boletos; those in 'pending' or 'printed'
\* are the ones line 652 will write
approve_read(r, boleto_ids) ==
  /\ req[r].pc = "idle"
  /\ boleto_ids # {}
  /\ req' = [req EXCEPT ![r] =
               [IdleReq EXCEPT
                  !.pc = "approving",
                  !.ids = {id \in ActiveBoletos \cap boleto_ids :
                             boletos[id].status \in {"pending", "printed"}}]]
  /\ UNCHANGED <<cfg, boletos, invoices, pdfs, remessa, cnab, calc>>

\* lines 652-660: UPDATE boleto SET status = 'approved' for the boletos
\* loaded, and commit
approve_commit(r) ==
  /\ req[r].pc = "approving"
  /\ boletos' = [id \in DOMAIN boletos |->
                   IF id \in req[r].ids
                   THEN [boletos[id] EXCEPT !.status = "approved"]
                   ELSE boletos[id]]
  /\ req' = [req EXCEPT ![r] = IdleReq]
  /\ UNCHANGED <<cfg, invoices, pdfs, remessa, cnab, calc>>

\* lines 829-844 (by = the cedente) / 878-888 (by = the agente): the boleto
\* is loaded and passes the checks; a request that does not pass them only
\* redirects
cancel_read(r, by, boleto_id) ==
  /\ req[r].pc = "idle"
  /\ boleto_id \in DOMAIN boletos
  /\ by = AgenteId \/ boletos[boleto_id].user_id = by
  /\ boletos[boleto_id].deleted_at = 0
  /\ boletos[boleto_id].status # "registered"
  /\ req' = [req EXCEPT ![r] =
               [IdleReq EXCEPT !.pc = "cancelling", !.user = by,
                               !.ids = {boleto_id}]]
  /\ UNCHANGED <<cfg, boletos, invoices, pdfs, remessa, cnab, calc>>

\* lines 847-863 / 891-908
cancel_commit(r) ==
  /\ req[r].pc = "cancelling"
  /\ \E boleto_id \in req[r].ids : CancelWrite(boleto_id, req[r].user)
  /\ req' = [req EXCEPT ![r] = IdleReq]
  /\ UNCHANGED <<cfg, pdfs, remessa, cnab, calc>>

\* lines 700-743: the approved boletos of the bank are loaded and the file
\* of the first group is built; without boletos, or when the emitter
\* raises, the request only redirects
remessa_read(r, bank_code) ==
  /\ req[r].pc = "idle"
  /\ RemessaList(bank_code) # <<>>
  /\ ~EmitterRaises(bank_code)
  /\ req' = [req EXCEPT ![r] =
               [IdleReq EXCEPT !.pc = "registering", !.bank = bank_code,
                               !.alloc = RemessaList(bank_code)]]
  /\ UNCHANGED <<cfg, boletos, invoices, pdfs, remessa, cnab, calc>>

\* lines 746-772: UPDATE boleto SET status = 'registered' for the boletos of
\* the file, commit, and the file is sent
remessa_commit(r) ==
  LET boleto_group == req[r].alloc IN
  /\ req[r].pc = "registering"
  /\ boletos' = [id \in DOMAIN boletos |->
                   IF id \in SeqRange(boleto_group)
                   THEN [boletos[id] EXCEPT !.status = "registered"]
                   ELSE boletos[id]]
  /\ remessa' = [ok |-> TRUE, bank |-> req[r].bank,
                 user |-> boletos[boleto_group[1]].user_id,
                 seq |-> Len(boleto_group), header_seq |-> 1,
                 ids |-> boleto_group]
  /\ req' = [req EXCEPT ![r] = IdleReq]
  /\ UNCHANGED <<cfg, invoices, pdfs, cnab, calc>>

\* the agente and cedente requests of two threads interleaved, on boletos
\* generated at BMP
NextConcurrent ==
  \/ generate_boleto_from(1, {{}, {1}}, {"bmp"})
  \/ \E r \in Reqs, ids \in SUBSET DOMAIN boletos : approve_read(r, ids)
  \/ \E r \in Reqs : approve_commit(r)
  \/ \E r \in Reqs, by \in {CedenteId, AgenteId}, id \in DOMAIN boletos :
       cancel_read(r, by, id)
  \/ \E r \in Reqs : cancel_commit(r)
  \/ \E r \in Reqs : remessa_read(r, BankCode("bmp"))
  \/ \E r \in Reqs : remessa_commit(r)

SpecConcurrent == Init /\ [][NextConcurrent]_vars

\* the cedente logged in on each request thread: the first has its
\* bank_config rows, the second has none
SessionUser(r) == IF r = 1 THEN CedenteId ELSE Cedente2Id

\* generate_boleto for Santander while the admin enables and disables the
\* Santander configuration of the first cedente, the counter triple
\* resubmitted as it is
NextDisabled ==
  \/ \E r \in Reqs :
       generate_boleto_as(r, SessionUser(r), {{1}, {1, 2}}, {"santander"})
  \/ \E active \in BOOLEAN :
       LET c == cfg[<<CedenteId, "santander">>] IN
       admin_edit_user(CedenteId, "santander", c.min, c.max, c.current,
                       active)

SpecDisabled == Init /\ [][NextDisabled]_vars

\* ============================================================ CnabService
\* text is modelled by strings; Len, SubSeq and \o act on them as on
\* sequences of characters
RECURSIVE Rep(_, _)
Rep(c, n) ==
  IF n <= 0 THEN ""
  ELSE IF n = 1 THEN c
  ELSE LET half == Rep(c, n \div 2)
       IN half \o half \o (IF n % 2 = 1 THEN c ELSE "")

RECURSIVE Concat(_)
Concat(parts) ==
  IF parts = <<>> THEN "" ELSE Head(parts) \o Concat(Tail(parts))

\* str.ljust / str.zfill: pad up to the length, never cut
ljust(text, length) == text \o Rep(" ", length - Len(text))
zfill(text, length) == Rep("0", length - Len(text)) \o text

IsDigit(c) == c \in {"0", "1", "2", "3", "4", "5", "6", "7", "8", "9"}

\* str.isdigit() of a text that is not empty
AllDigits(text) == \A i \in 1..Len(text) : IsDigit(SubSeq(text, i, i))

\* ''.join(filter(str.isdigit, text))
RECURSIVE Digits(_)
Digits(text) ==
  IF text = "" THEN ""
  ELSE (IF IsDigit(SubSeq(text, 1, 1)) THEN SubSeq(text, 1, 1) ELSE "")
         \o Digits(SubSeq(text, 2, Len(text)))

\* str(int(num)) of a string of digits: the leading zeros go
RECURSIVE StrInt(_)
StrInt(num) ==
  IF Len(num) > 1 /\ SubSeq(num, 1, 1) = "0"
  THEN StrInt(SubSeq(num, 2, Len(num))) ELSE num

\* services.py 36-55, left aligned with blanks: cut to length, then pad
format_text(text, length) ==
  ljust(SubSeq(text, 1, IF Len(text) < length THEN Len(text) ELSE length),
        length)

\* services.py 58-77 with decimals = 0: int(num) if num else 0, zero-filled
format_num(num, length) == zfill(IF num = "" THEN "0" ELSE StrInt(num), length)

\* services.py 71-73, 77 with decimals = 2, for an amount given in cents
format_num_cents(cents, length) == zfill(ToString(cents), length)

\* account.split('-')[0] if '-' in account else account, and the first
\* character after the dash (or '0')
RECURSIVE DashAt(_, _)
DashAt(text, n) ==
  IF n > Len(text) THEN 0
  ELSE IF SubSeq(text, n, n) = "-" THEN n ELSE DashAt(text, n + 1)

AccountBody(account) ==
  IF DashAt(account, 1) = 0 THEN account
  ELSE SubSeq(account, 1, DashAt(account, 1) - 1)

AccountDigit(account) ==
  IF DashAt(account, 1) = 0 THEN "0"
  ELSE SubSeq(account, DashAt(account, 1) + 1, DashAt(account, 1) + 1)

\* datetime.now().strftime('%d%m%Y') / ('%d%m%y'), and the due date
TodayDMY8 == "05112026"
TodayDMY6 == "051126"
DueDMY8 == "31122026"
DueDMY6 == "311226"

\* valor_juros_dia = (amount * (juros_percent / 100)) / 30, in cents as
\* format_num(..., decimals=2) truncates it
JurosDiaCents(amount_cents, juros_percent) ==
  (amount_cents * juros_percent) \div 3000

\* ------------------------------------------- generate_santander_240
\* services.py 126-135: the transmission code of the configuration, or
\* agency + blank + account + account digit
codigo_transmissao(config) ==
  IF config.codigo_transmissao # ""
  THEN format_num(config.codigo_transmissao, 15)
  ELSE Concat(<<format_num(config.agency, 4), " ",
                format_num(AccountBody(config.account), 9),
                AccountDigit(config.account)>>)

\* services.py 115-147
h_arq(cedente, config) ==
  Concat(<<"033", "0000", "0", Rep(" ", 8), "2",
           format_num(Digits(cedente.cnpj), 15),
           codigo_transmissao(config),
           Rep(" ", 25),
           format_text(IF cedente.razao_social # "" THEN cedente.razao_social
                       ELSE cedente.username, 30),
           format_text("BANCO SANTANDER", 30),
           Rep(" ", 10), "1", TodayDMY8, Rep(" ", 6),
           format_num(ToString(1), 6), "040", Rep(" ", 74)>>)

\* services.py 152-171
h_lote(cedente, config) ==
  Concat(<<"033", "0001", "1", "R", "01", "  ", "030", " ", "2",
           format_num(Digits(cedente.cnpj), 15),
           Rep(" ", 20),
           codigo_transmissao(config),
           Rep(" ", 5),
           format_text(IF cedente.razao_social # "" THEN cedente.razao_social
                       ELSE cedente.username, 30),
           Rep(" ", 40), Rep(" ", 40),
           format_num(ToString(1), 8), TodayDMY8, Rep(" ", 41)>>)

\* services.py 186-264
seg_p(boleto, boleto_config, seq) ==
  Concat(<<"033", "0001", "3", format_num(ToString(seq), 5), "P", " ", "01",
           format_num(boleto_config.agency, 4), "0",
           format_num(AccountBody(boleto_config.account), 9),
           AccountDigit(boleto_config.account),
           Rep("0", 9), "0", "  ",
           format_num(boleto.nosso_numero, 13),
           "5", "1", "1", " ", " ",
           format_text(ToString(boleto.id), 15),
           DueDMY8,
           format_num_cents(boleto.amount, 15),
           "0000", "0", " ", "04", "N",
           TodayDMY8,
           "0", Rep("0", 8),
           IF boleto_config.juros_percent # 0
           THEN Concat(<<"1", Rep("0", 8),
                         format_num_cents(
                           JurosDiaCents(boleto.amount,
                                         boleto_config.juros_percent), 15)>>)
           ELSE Concat(<<Rep("0", 1), Rep("0", 8), Rep("0", 15)>>),
           "0", Rep("0", 8), Rep("0", 15), Rep("0", 15), Rep("0", 15),
           format_text(ToString(boleto.id), 25),
           IF boleto_config.protesto_dias # 0
           THEN "1" \o format_num(ToString(boleto_config.protesto_dias), 2)
           ELSE "3" \o "00",
           IF boleto_config.baixa_dias # 0
           THEN Concat(<<"1", "0",
                         format_num(ToString(boleto_config.baixa_dias), 2)>>)
           ELSE Concat(<<"1", "0", "90">>),
           "09", Rep(" ", 11)>>)

\* services.py 270-307, for a boleto that has an invoice
seg_q(boleto, seq) ==
  LET doc_clean == Digits(boleto.sacado_doc)
      inv == boleto.inv
      end_cep == Digits(inv.sacado_zip)
  IN Concat(<<"033", "0001", "3", format_num(ToString(seq), 5), "Q", " ",
              "01",
              IF Len(doc_clean) > 11 THEN "2" ELSE "1",
              format_num(doc_clean, 15),
              format_text(boleto.sacado_name, 40),
              format_text(inv.sacado_address, 40),
              format_text(inv.sacado_neighborhood, 15),
              format_num(SubSeq(end_cep, 1,
                                IF Len(end_cep) < 5 THEN Len(end_cep) ELSE 5),
                         5),
              format_num(SubSeq(end_cep, 6, Len(end_cep)), 3),
              format_text(inv.sacado_city, 15),
              format_text(inv.sacado_state, 2),
              "0", Rep("0", 15), Rep(" ", 40),
              Rep(" ", 3), Rep(" ", 3), Rep(" ", 3), Rep(" ", 3),
              Rep(" ", 19)>>)

\* services.py 313-319
t_lote(seq) ==
  Concat(<<"033", "0001", "5", Rep(" ", 9), format_num(ToString(seq + 1), 6),
           Rep(" ", 217)>>)

\* the file trailer counting the records before it only
t_arq_not_counted(len_lines) ==
  Concat(<<"033", "9999", "9", Rep(" ", 9), format_num(ToString(1), 6),
           format_num(ToString(len_lines), 6), Rep(" ", 211)>>)

\* services.py 324-331; len_lines is len(lines) before the trailer is added
t_arq(len_lines) ==
  Concat(<<"033", "9999", "9", Rep(" ", 9), format_num(ToString(1), 6),
           format_num(ToString(len_lines + 1), 6), Rep(" ", 211)>>)

\* "\r\n".join(lines)
RECURSIVE JoinCRLF(_)
JoinCRLF(lines) ==
  IF lines = <<>> THEN ""
  ELSE IF Len(lines) = 1 THEN lines[1]
  ELSE Concat(<<lines[1], "\r\n", JoinCRLF(Tail(lines))>>)

\* services.py 176-310: the loop over the boletos, from the k-th on; seq is
\* the running segment number
RECURSIVE SantanderSegments(_, _, _, _)
SantanderSegments(boletos_in, config, k, seq) ==
  IF k > Len(boletos_in) THEN <<>>
  ELSE <<seg_p(boletos_in[k], config, seq),
         seg_q(boletos_in[k], seq + 1)>>
         \o SantanderSegments(boletos_in, config, k + 1, seq + 2)

\* services.py 80-336.  A boleto without invoices makes line 292 raise.
generate_santander_240(boletos_in, cedente) ==
  LET config == cedente.config
      n == Len(boletos_in)
      seq == 1 + 2 * n
      body == <<h_arq(cedente, config), h_lote(cedente, config)>>
                \o SantanderSegments(boletos_in, config, 1, 1)
                \o <<t_lote(seq)>>
      lines == Append(body, t_arq(Len(body)))
  IN IF \E k \in 1..n : ~boletos_in[k].inv.present
     THEN [kind |-> "santander", args |-> <<boletos_in, cedente>>, n |-> n,
           raised |-> TRUE, lines |-> <<>>, content |-> ""]
     ELSE [kind |-> "santander", args |-> <<boletos_in, cedente>>, n |-> n,
           raised |-> FALSE, lines |-> lines, content |-> JoinCRLF(lines)]

\* ------------------------------------------------- generate_bmp_400
DigitVal(c) == CHOOSE d \in 0..9 : ToString(d) = c

\* utils.py 52-58: the weighted sum from the right, weights 2..7 cycling
RECURSIVE SomaPesos(_, _)
SomaPesos(base_calculo, peso) ==
  IF base_calculo = "" THEN 0
  ELSE DigitVal(SubSeq(base_calculo, Len(base_calculo), Len(base_calculo)))
         * peso
       + SomaPesos(SubSeq(base_calculo, 1, Len(base_calculo) - 1),
                   IF peso + 1 > 7 THEN 2 ELSE peso + 1)

\* utils.py 14-70
calcular_dv_bmp(carteira, nosso_numero_sem_dv) ==
  LET nn_str == zfill(nosso_numero_sem_dv, 11)
      resto == SomaPesos(carteira \o nn_str, 2) % 11
  IN IF resto = 0 THEN "0"
     ELSE IF resto = 1 THEN "P"
     ELSE ToString(11 - resto)

\* services.py 369-383
bmp_header(cedente, bmp_config) ==
  Concat(<<"0", "1", "REMESSA", "01",
           format_text("COBRANCA", 15),
           format_text(bmp_config.convenio, 20),
           format_text(IF cedente.razao_social # "" THEN cedente.razao_social
                       ELSE cedente.username, 30),
           "274",
           format_text("BMP MONEY PLUS", 15),
           TodayDMY6, Rep(" ", 8), "MX",
           format_num(ToString(1), 7), Rep(" ", 277),
           format_num(ToString(1), 6)>>)

\* services.py 397-509
bmp_detail(boleto, cedente, boleto_config, seq) ==
  LET wallet == IF boleto_config.wallet # "" THEN boleto_config.wallet
                ELSE "109"
      acc_full == IF boleto_config.account # "" THEN boleto_config.account
                  ELSE "0000000"
      identificacao_banco ==
        Concat(<<"0", format_num(wallet, 3),
                 format_num(boleto_config.agency, 5),
                 format_num(Digits(AccountBody(acc_full)), 7),
                 AccountDigit(acc_full)>>)
      inv == boleto.inv
      especie_code ==
        IF ~inv.present THEN "04"
        ELSE IF inv.especie = "DM" THEN "02"
        ELSE "04"
      instr1 == IF boleto_config.protesto_dias # 0 THEN "09"
                ELSE IF boleto_config.baixa_dias # 0 THEN "15"
                ELSE "00"
      val_juros == IF boleto_config.juros_percent # 0
                   THEN JurosDiaCents(boleto.amount,
                                      boleto_config.juros_percent)
                   ELSE 0
      doc_clean == Digits(boleto.sacado_doc)
      full_address == IF inv.present
                      THEN SubSeq(inv.sacado_address, 1,
                                  IF Len(inv.sacado_address) < 40
                                  THEN Len(inv.sacado_address) ELSE 40)
                      ELSE ""
      bairro == IF inv.present THEN inv.sacado_neighborhood ELSE ""
      cep == IF inv.present
             THEN Digits(IF inv.sacado_zip # "" THEN inv.sacado_zip
                         ELSE "00000000")
             ELSE "00000000"
      cidade == IF inv.present THEN inv.sacado_city ELSE ""
      uf == IF inv.present /\ inv.sacado_state # "" THEN inv.sacado_state
            ELSE "  "
  IN Concat(<<"1", "02", format_num(Digits(cedente.cnpj), 14), "0", "0", " ",
              identificacao_banco,
              format_text(ToString(boleto.id), 25),
              "00000000",
              format_num(boleto.nosso_numero, 11),
              calcular_dv_bmp(wallet, boleto.nosso_numero),
              Rep("0", 10), "2", "N", Rep(" ", 13), "I", "01",
              format_text(ToString(boleto.id), 10),
              DueDMY6,
              format_num_cents(boleto.amount, 13),
              "274", "00000",
              especie_code, "N", TodayDMY6,
              instr1, "00",
              format_num_cents(val_juros, 13),
              "00" \o "00" \o "00",
              format_num_cents(0, 13), format_num_cents(0, 13),
              format_num_cents(0, 13),
              IF Len(doc_clean) > 11 THEN "02" ELSE "01",
              format_num(doc_clean, 14),
              format_text(boleto.sacado_name, 40),
              format_text(full_address, 40),
              format_text(bairro, 12),
              format_num(cep, 8),
              format_text(cidade, 15),
              format_text(uf, 2),
              Rep(" ", 42), "0",
              format_num(ToString(seq), 6)>>)

\* services.py 515-517
bmp_trailer(seq) ==
  Concat(<<"9", Rep(" ", 393), format_num(ToString(seq), 6)>>)

\* services.py 388-512: the details from the k-th boleto on
RECURSIVE BmpDetails(_, _, _, _)
BmpDetails(boletos_in, cedente, k, seq) ==
  IF k > Len(boletos_in) THEN <<>>
  ELSE <<bmp_detail(boletos_in[k], cedente, cedente.config, seq)>>
         \o BmpDetails(boletos_in, cedente, k + 1, seq + 1)

\* services.py 339-522
generate_bmp_400(boletos_in, cedente) ==
  LET n == Len(boletos_in)
      lines == <<bmp_header(cedente, cedente.config)>>
                 \o BmpDetails(boletos_in, cedente, 1, 2)
                 \o <<bmp_trailer(2 + n)>>
  IN [kind |-> "bmp", args |-> <<boletos_in, cedente>>, n |-> n,
      raised |-> FALSE, lines |-> lines, content |-> JoinCRLF(lines)]

\* ------------------------------------------------ inputs of the emitters
MaxCnabBoletos == 2

\* a cedente as tests.py 30-44 / 96-110 builds one, with the bank_config
\* the emitter picks; the accounts are the one init_db gives (eight digits
\* and a check digit) and one without dash
CnabConfigs ==
  [agency : {"3421"}, account : {"13000456-7", "12345"}, wallet : {"101"},
   convenio : {"3421130"},
   codigo_transmissao : {"", "123456789012345"},
   juros_percent : {0, 1}, protesto_dias : {0, 5}, baixa_dias : {0, 10}]

CnabCedentes ==
  [cnpj : {"12.345.678/0001-00"}, razao_social : {"EMPRESA TESTE LTDA"},
   username : {"cedente"}, config : CnabConfigs]

\* the first invoice of a boleto (tests.py 64-80), or none
CnabInvoices ==
  {[present |-> TRUE, sacado_address |-> "Rua Teste 100",
    sacado_neighborhood |-> "Centro", sacado_city |-> "Sao Paulo",
    sacado_state |-> "SP", sacado_zip |-> z, especie |-> "DM"] :
     z \in {"12345-000"}}
  \cup {[present |-> FALSE, sacado_address |-> "",
          sacado_neighborhood |-> "", sacado_city |-> "",
          sacado_state |-> "", sacado_zip |-> "", especie |-> ""]}

\* the payers: a CPF, and a CNPJ whose name is longer than its field
CnabPayers ==
  {[sacado_doc |-> "123.456.789-01", sacado_name |-> "Fulano de Tal"],
   [sacado_doc |-> "12345678000199",
    sacado_name |-> "Companhia Brasileira de Exemplos e Testes Ltda"]}

\* the boleto lists: the k-th boleto has id k and nosso numero
\* str(1000000 + k)
CnabBoleto(k, payer, inv) ==
  [id |-> k, nosso_numero |-> ToString(1000000 + k), amount |-> 10050 * k,
   sacado_doc |-> payer.sacado_doc, sacado_name |-> payer.sacado_name,
   inv |-> inv]

CnabBoletoLists ==
  UNION {{[k \in 1..n |-> CnabBoleto(k, ps[k], is[k])] :
             ps \in [1..n -> CnabPayers], is \in [1..n -> CnabInvoices]} :
         n \in 0..MaxCnabBoletos}

\* ------------------------------------------------- emitting a CNAB text
\* the agente's database left aside, a call of an emitter on arguments
\* drawn from the lists and cedentes above
InitCnab ==
  /\ cfg = [k \in CfgKeys |->
              [current |-> MinNN, min |-> MinNN, max |-> InitMaxNN(k[2]),
               is_active |-> TRUE]]
  /\ boletos = <<>>
  /\ invoices = [i \in InvoiceIds |->
                   [boleto_id |-> 0, status |-> "pending", deleted_at |-> 0,
                    deleted_by |-> 0]]
  /\ pdfs = {}
  /\ req = [r \in Reqs |-> IdleReq]
  /\ remessa = NoRemessa
  /\ \E boletos_in \in CnabBoletoLists, cedente \in CnabCedentes :
        cnab = [NoCnab EXCEPT !.args = <<boletos_in, cedente>>]
  /\ calc = NoCalc

emit_santander ==
  /\ cnab.kind = ""
  /\ cnab' = generate_santander_240(cnab.args[1], cnab.args[2])
  /\ UNCHANGED <<cfg, boletos, invoices, pdfs, req, remessa, calc>>

emit_bmp ==
  /\ cnab.kind = ""
  /\ cnab' = generate_bmp_400(cnab.args[1], cnab.args[2])
  /\ UNCHANGED <<cfg, boletos, invoices, pdfs, req, remessa, calc>>

NextCnab == emit_santander \/ emit_bmp

SpecCnab == InitCnab /\ [][NextCnab]_vars

\* =========================================================== BoletoBuilder
\* text[a:b] of Python: the characters after the first a up to the b-th,
\* as far as the text goes
Slice(text, a, b) ==
  LET last == IF b < Len(text) THEN b ELSE Len(text) IN
  IF a >= last THEN "" ELSE SubSeq(text, a + 1, last)

\* services.py 547-551: the sum over reversed(number), from the i-th
\* character down, weight being the weight of that character
RECURSIVE Mod11Sum(_, _, _, _)
Mod11Sum(number, i, weight, base) ==
  IF i = 0 THEN 0
  ELSE DigitVal(SubSeq(number, i, i)) * weight
         + Mod11Sum(number, i - 1,
                    IF weight + 1 > base THEN 2 ELSE weight + 1, base)

\* the check digit with a result of 10 returned as it is
mod11_keeps_ten(number, base, r) ==
  LET sum_val == Mod11Sum(number, Len(number), 2, base)
      remainder == sum_val % 11
      result == 11 - remainder
  IN IF result > 10 THEN r ELSE result

\* services.py 531-558
mod11(number, base, r) ==
  LET sum_val == Mod11Sum(number, Len(number), 2, base)
      remainder == sum_val % 11
      result == 11 - remainder
  IN IF result >= 10 THEN r ELSE result

\* services.py 574-579
RECURSIVE Mod10Sum(_, _, _)
Mod10Sum(number, i, weight) ==
  IF i = 0 THEN 0
  ELSE LET val == DigitVal(SubSeq(number, i, i)) * weight IN
       (IF val > 9 THEN (val \div 10) + (val % 10) ELSE val)
         + Mod10Sum(number, i - 1, IF weight = 2 THEN 1 ELSE 2)

\* services.py 560-582
mod10(number) ==
  LET remainder == Mod10Sum(number, Len(number), 2) % 10
  IN IF remainder = 0 THEN 0 ELSE 10 - remainder

\* services.py 584-599; nosso_numero is given as the text str() makes of
\* the integer
calculate_santander_nosso_numero(nosso_numero, carteira) ==
  LET nn_str == zfill(nosso_numero, 12)
      dv == mod11(nn_str, 9, 0)
  IN nn_str \o "-" \o ToString(dv)

\* datetime(1997, 10, 7).date() as a day number (date.toordinal())
BaseDateOrdinal == 729304

\* services.py 601-695.  due_date is a day number, amount is given in
\* cents for amounts whose product by 100 is exact.  Returns the pair
\* (barcode, digitable_line).
calculate_barcode(bank_code, currency_code, due_date, amount, nosso_numero, agency, account, carteira) ==
  LET days_diff == due_date - BaseDateOrdinal
      fator_vencimento == zfill(ToString(days_diff), 4)
      amount_str == zfill(ToString(amount), 10)
      free_field == "9" \o zfill(carteira, 3)
                        \o Slice(zfill(nosso_numero, 12), 0, 12)
      barcode_no_dv == bank_code \o currency_code \o fator_vencimento
                         \o amount_str \o free_field
      dv_barcode == mod11(barcode_no_dv, 9, 1)
      barcode == bank_code \o currency_code \o ToString(dv_barcode)
                   \o fator_vencimento \o amount_str \o free_field
      field1_data == bank_code \o currency_code \o Slice(free_field, 0, 5)
      field1 == field1_data \o ToString(mod10(field1_data))
      field2_data == Slice(free_field, 5, 15)
      field2 == field2_data \o ToString(mod10(field2_data))
      field3_data == Slice(free_field, 15, 25)
      field3 == field3_data \o ToString(mod10(field3_data))
      field4 == ToString(dv_barcode)
      field5 == fator_vencimento \o amount_str
      digitable_line ==
        Concat(<<Slice(field1, 0, 5), ".", Slice(field1, 5, Len(field1)), " ",
                 Slice(field2, 0, 5), ".", Slice(field2, 5, Len(field2)), " ",
                 Slice(field3, 0, 5), ".", Slice(field3, 5, Len(field3)), " ",
                 field4, " ", field5>>)
  IN <<barcode, digitable_line>>

\* ============================================================= validation
\* sum of int(doc[i]) * weights[i] over the first Len(weights) characters
RECURSIVE WeightedSum(_, _)
WeightedSum(doc, weights) ==
  IF weights = <<>> THEN 0
  ELSE DigitVal(SubSeq(doc, Len(weights), Len(weights)))
         * weights[Len(weights)]
       + WeightedSum(doc, SubSeq(weights, 1, Len(weights) - 1))

\* validation.py 38-39: 0 if remainder < 2 else 11 - remainder
CheckDigit(sum_val) ==
  LET remainder == sum_val % 11 IN
  IF remainder < 2 THEN 0 ELSE 11 - remainder

\* validation.py 12-55
validate_cpf(document) ==
  LET cpf == Digits(document) IN
  IF Len(cpf) # 11 THEN FALSE
  ELSE IF cpf = Rep(SubSeq(cpf, 1, 1), 11) THEN FALSE
  ELSE IF DigitVal(SubSeq(cpf, 10, 10))
            # CheckDigit(WeightedSum(cpf, [i \in 1..9 |-> 11 - i]))
  THEN FALSE
  ELSE DigitVal(SubSeq(cpf, 11, 11))
         = CheckDigit(WeightedSum(cpf, [i \in 1..10 |-> 12 - i]))

\* validation.py 58-103
validate_cnpj(document) ==
  LET cnpj == Digits(document)
      weights1 == <<5, 4, 3, 2, 9, 8, 7, 6, 5, 4, 3, 2>>
      weights2 == <<6, 5, 4, 3, 2, 9, 8, 7, 6, 5, 4, 3, 2>>
  IN
  IF Len(cnpj) # 14 THEN FALSE
  ELSE IF cnpj = Rep(SubSeq(cnpj, 1, 1), 14) THEN FALSE
  ELSE IF DigitVal(SubSeq(cnpj, 13, 13))
            # CheckDigit(WeightedSum(cnpj, weights1))
  THEN FALSE
  ELSE DigitVal(SubSeq(cnpj, 14, 14))
         = CheckDigit(WeightedSum(cnpj, weights2))

\* validation.py 106-123
validate_cpf_cnpj(document) ==
  LET clean_doc == Digits(document) IN
  IF Len(clean_doc) = 11 THEN validate_cpf(document)
  ELSE IF Len(clean_doc) = 14 THEN validate_cnpj(document)
  ELSE FALSE

\* the CPF printed with the first check digit left out
format_cpf_one_digit(document) ==
  LET cpf == Digits(document) IN
  IF Len(cpf) # 11 THEN cpf
  ELSE Concat(<<Slice(cpf, 0, 3), ".", Slice(cpf, 3, 6), ".",
                Slice(cpf, 6, 9), "-", Slice(cpf, 10, 11)>>)

\* validation.py 126-140
format_cpf(document) ==
  LET cpf == Digits(document) IN
  IF Len(cpf) # 11 THEN cpf
  ELSE Concat(<<Slice(cpf, 0, 3), ".", Slice(cpf, 3, 6), ".",
                Slice(cpf, 6, 9), "-", Slice(cpf, 9, 11)>>)

\* validation.py 143-157
format_cnpj(document) ==
  LET cnpj == Digits(document) IN
  IF Len(cnpj) # 14 THEN cnpj
  ELSE Concat(<<Slice(cnpj, 0, 2), ".", Slice(cnpj, 2, 5), ".",
                Slice(cnpj, 5, 8), "/", Slice(cnpj, 8, 12), "-",
                Slice(cnpj, 12, 14)>>)

\* ============================================================== XmlParser
\* a document is what etree.parse finds in the file:
\*   parses  the file is well-formed XML
\*   tag     root.tag, '{namespace}name' or 'name'
\*   payer   the element that names the payer: dest, toma3 (with the node of
\*           its role), toma4, or none
\*   xNome, vNF, nNF  the element is there (vTPrest, nCT in a CTe)
\*   doc     the tax id element of the payer: "CNPJ", "CPF" or "" (none)
\*   date    the text of dhEmi, or of dEmi when dhEmi is absent, "" if none
UpperCase == "ABCDEFGHIJKLMNOPQRSTUVWXYZ"
LowerCase == "abcdefghijklmnopqrstuvwxyz"

\* str.lower()
LowerChar(c) ==
  IF \E i \in 1..26 : SubSeq(UpperCase, i, i) = c
  THEN LET i == CHOOSE i \in 1..26 : SubSeq(UpperCase, i, i) = c
       IN SubSeq(LowerCase, i, i)
  ELSE c

RECURSIVE lower(_)
lower(text) ==
  IF text = "" THEN ""
  ELSE LowerChar(SubSeq(text, 1, 1)) \o lower(SubSeq(text, 2, Len(text)))

\* sub in text
Contains(sub, text) ==
  \E i \in 1..(Len(text) - Len(sub) + 1) :
     SubSeq(text, i, i + Len(sub) - 1) = sub

\* text.split(sep)[0]
BeforeFirst(sep, text) ==
  IF Contains(sep, text)
  THEN LET i == CHOOSE i \in 1..Len(text) :
                  /\ SubSeq(text, i, i) = sep
                  /\ ~Contains(sep, SubSeq(text, 1, i - 1))
       IN SubSeq(text, 1, i - 1)
  ELSE text

\* datetime.strptime(text, '%Y-%m-%d') accepts the text
IsIsoDate(text) ==
  /\ Len(text) = 10
  /\ SubSeq(text, 5, 5) = "-"
  /\ SubSeq(text, 8, 8) = "-"
  /\ AllDigits(SubSeq(text, 1, 4) \o SubSeq(text, 6, 7) \o SubSeq(text, 9, 10))

\* datetime.now().date()
TodayISO == "2026-11-05"

PayerName == "ACME TRANSPORTES LTDA"
PayerTaxId(doc) == IF doc = "CNPJ" THEN "11222333000181" ELSE "12345678909"

Raised == [raised |-> TRUE]

\* services.py 985-1044
parse_nfe(tree, ns) ==
  IF tree.payer # "dest" THEN Raised
  ELSE LET date_str == tree.date
           dated == IF Contains("T", date_str)
                    THEN BeforeFirst("T", date_str) ELSE date_str
       IN IF date_str # "" /\ ~IsIsoDate(dated) THEN Raised
          ELSE [raised |-> FALSE,
                sacado_name |-> IF tree.xNome THEN PayerName ELSE "Unknown",
                sacado_doc |-> IF tree.doc # "" THEN PayerTaxId(tree.doc)
                               ELSE "",
                amount |-> IF tree.vNF THEN 10050 ELSE 0,
                issue_date |-> IF date_str # "" THEN dated ELSE TodayISO,
                doc_number |-> IF tree.nNF THEN "42" ELSE "Unknown"]

\* services.py 1058-1151
parse_cte(tree, ns) ==
  LET date_str == tree.date
      dated == BeforeFirst("T", date_str)
      found == tree.payer # "none"
  IN IF Contains("T", date_str) /\ ~IsIsoDate(dated) THEN Raised
     ELSE [raised |-> FALSE,
           sacado_name |-> IF found /\ tree.xNome THEN PayerName
                           ELSE "Unknown",
           sacado_doc |-> IF found /\ (tree.doc = "CNPJ"
                                         \/ (tree.doc = "CPF"
                                               /\ tree.payer # "dest"))
                          THEN PayerTaxId(tree.doc) ELSE "",
           amount |-> IF tree.vNF THEN 10050 ELSE 0,
           issue_date |-> IF Contains("T", date_str) THEN dated
                          ELSE TodayISO,
           doc_number |-> IF tree.nNF THEN "42" ELSE "Unknown"]

\* (None, None)
NoneNone == [type |-> "None", data |-> Raised]

\* services.py 1153-1185
parse_file(file) ==
  IF ~file.parses THEN NoneNone
  ELSE LET tag == file.tag
           ns == IF Contains("}", tag)
                 THEN SubSeq(BeforeFirst("}", tag), 2, Len(BeforeFirst("}", tag)))
                 ELSE ""
           tag_lower == lower(tag)
           data == IF Contains("nfe", tag_lower) THEN parse_nfe(file, ns)
                   ELSE parse_cte(file, ns)
       IN IF ~Contains("nfe", tag_lower) /\ ~Contains("cte", tag_lower)
          THEN NoneNone
          ELSE IF data.raised THEN NoneNone
          ELSE [type |-> IF Contains("nfe", tag_lower) THEN "nfe" ELSE "cte",
                data |-> data]

\* -------------------------------------------- the calls of the functions
\* app.py 425-458: generate_boleto calls calculate_barcode with the code of
\* the bank, currency '9', a due date five days ahead, the amount of the
\* group, str(nosso_numero).zfill(12) and the wallet of the configuration
BarcodeCalls ==
  {<<"calculate_barcode",
     <<bank_code, "9", BaseDateOrdinal + days, amount, zfill(ToString(nn), 12),
       "3421", "1300045", carteira>>>> :
     bank_code \in {"033", "274"}, days \in {9999, 10626},
     amount \in {1, 10050, 12345600}, nn \in {1, 123, 999999999},
     carteira \in {"101", "109"}}

\* the sequential numbers the calls below are made on
MaxCalcNosso == 30

\* app.py 441: calcular_dv_bmp(carteira, nosso_numero), the number given as
\* the text str() makes of it
DvBmpCalls ==
  {<<"calcular_dv_bmp", <<carteira, ToString(nn)>>>> :
     carteira \in {"109", "1"}, nn \in 1..MaxCalcNosso}

\* app.py 436: calculate_santander_nosso_numero(nosso_numero, carteira)
NossoNumeroCalls ==
  {<<"calculate_santander_nosso_numero", <<nn, "101">>>> :
     nn \in {ToString(n) : n \in 0..MaxCalcNosso}
             \cup {"4096", "999999999", "100000000000", "123456789012",
                   "999999999999"}}

\* documents: the CPF stem 123456789 and the CNPJ stem 112223330001 with
\* every pair of check digits, repeated digits, other lengths, and texts
\* that carry separators already
Documents ==
  {"123456789" \o ToString(d1) \o ToString(d2) : d1 \in 0..9, d2 \in 0..9}
  \cup {"112223330001" \o ToString(d1) \o ToString(d2) :
           d1 \in 0..9, d2 \in 0..9}
  \cup {"", "7", "1234567890", "123456789012", "1234567890123",
        "123456789012345", "11111111111", "00000000000000",
        "123.456.789-09", "11.222.333/0001-81", "123.456.789-0",
        "52998224725", "11444777000161"}

DocumentCalls ==
  {<<fn, <<document>>>> :
     fn \in {"validate_cpf_cnpj", "format_cpf", "format_cnpj"},
     document \in Documents}

\* the uploaded files: one that is not XML, and documents with each root
\* and each element present or absent
RootTags ==
  {"{http://www.portalfiscal.inf.br/nfe}nfeProc",
   "{http://www.portalfiscal.inf.br/nfe}envEvento",
   "{http://www.portalfiscal.inf.br/cte}cteProc",
   "NFe", "{urn:example}invoice", "invoice"}

XmlFiles ==
  {[parses |-> FALSE, tag |-> "", payer |-> "none", xNome |-> FALSE,
    doc |-> "", vNF |-> FALSE, date |-> "", nNF |-> FALSE]}
  \cup [parses : {TRUE}, tag : RootTags,
        payer : {"dest", "toma4", "none"}, xNome : BOOLEAN,
        doc : {"CNPJ", "CPF", ""}, vNF : BOOLEAN,
        date : {"2026-01-15T10:30:00-03:00", "2026-01-15", "15/01/2026", ""},
        nNF : BOOLEAN]

XmlCalls == {<<"parse_file", <<file>>>> : file \in XmlFiles}

\* services.py 410-421: format_num on the digits of an agency or of an
\* account and on counters, for fields of 3, 5, 7 and 9 columns
FormatNumCalls ==
  {<<"format_num", <<num, length>>>> :
     num \in {"", "0", "7", "007", "3421", "22345", "1300045", "13000456"}
              \cup {ToString(n) : n \in 1..MaxCalcNosso},
     length \in {3, 5, 7, 9}}

Calls ==
  BarcodeCalls \cup DvBmpCalls \cup NossoNumeroCalls \cup DocumentCalls
    \cup XmlCalls \cup FormatNumCalls

\* a call of one of the functions, on arguments as the program passes them
InitCalc ==
  /\ cfg = [k \in CfgKeys |->
              [current |-> MinNN, min |-> MinNN, max |-> InitMaxNN(k[2]),
               is_active |-> TRUE]]
  /\ boletos = <<>>
  /\ invoices = [i \in InvoiceIds |->
                   [boleto_id |-> 0, status |-> "pending", deleted_at |-> 0,
                    deleted_by |-> 0]]
  /\ pdfs = {}
  /\ req = [r \in Reqs |-> IdleReq]
  /\ remessa = NoRemessa
  /\ cnab = NoCnab
  /\ \E c \in Calls : calc = [NoCalc EXCEPT !.fn = c[1], !.args = c[2]]

Returns(fn, out) ==
  /\ calc.fn = fn
  /\ ~calc.done
  /\ calc' = [calc EXCEPT !.done = TRUE, !.out = out]
  /\ UNCHANGED <<cfg, boletos, invoices, pdfs, req, remessa, cnab>>

call_calculate_barcode ==
  LET a == calc.args IN
  Returns("calculate_barcode",
          calculate_barcode(a[1], a[2], a[3], a[4], a[5], a[6], a[7], a[8]))

call_calcular_dv_bmp ==
  Returns("calcular_dv_bmp", calcular_dv_bmp(calc.args[1], calc.args[2]))

call_calculate_santander_nosso_numero ==
  Returns("calculate_santander_nosso_numero",
          calculate_santander_nosso_numero(calc.args[1], calc.args[2]))

call_validate_cpf_cnpj ==
  Returns("validate_cpf_cnpj", validate_cpf_cnpj(calc.args[1]))

call_format_cpf == Returns("format_cpf", format_cpf(calc.args[1]))

call_format_cnpj == Returns("format_cnpj", format_cnpj(calc.args[1]))

call_parse_file == Returns("parse_file", parse_file(calc.args[1]))

call_format_num ==
  Returns("format_num", format_num(calc.args[1], calc.args[2]))

NextCalc ==
  \/ call_calculate_barcode
  \/ call_format_num
  \/ call_parse_file
  \/ call_validate_cpf_cnpj
  \/ call_format_cpf
  \/ call_format_cnpj
  \/ call_calcular_dv_bmp
  \/ call_calculate_santander_nosso_numero

SpecCalc == InitCalc /\ [][NextCalc]_vars

\* ================================================================ claims
SameKey(a, b) ==
  /\ boletos[a].user_id = boletos[b].user_id
  /\ boletos[a].bank = boletos[b].bank

RowsOf(k) ==
  {id \in DOMAIN boletos : /\ boletos[id].user_id = k[1]
                           /\ boletos[id].bank = BankCode(k[2])}

Finished(r) == req[r].pc \in {"committed", "failed"}

\* C1: for every (tenant, bank), the nosso-numeros of the boletos committed
\* by generate_boleto, taken in the order of their allocation (rolled-back
\* batches in between included), go up by exactly one from each to the next.
C1_GapFree ==
  \A a \in DOMAIN boletos : \A b \in DOMAIN boletos :
     ( /\ a < b
       /\ SameKey(a, b)
       /\ ~ \E c \in DOMAIN boletos : a < c /\ c < b /\ SameKey(a, c) )
     => boletos[b].nosso_numero = boletos[a].nosso_numero + 1

\* two allocations committed by two batches of one (tenant, bank), a batch
\* that was rolled back (its file is still there) having run between them
C1_Witness ==
  \E a \in DOMAIN boletos : \E b \in DOMAIN boletos : \E r \in Reqs :
     /\ a < b
     /\ SameKey(a, b)
     /\ boletos[b].nosso_numero = boletos[a].nosso_numero + 1
     /\ req[r].pc = "committed"
     /\ req[r].alloc = <<boletos[b].nosso_numero>>
     /\ \E f \in pdfs : f > b /\ f \notin DOMAIN boletos

\* C2: two concurrent generate_boleto requests on one BankConfig row never
\* obtain the same nosso-numero, and the counter ends advanced by the number
\* of boletos created.
C2_Serialized ==
  /\ \A r1 \in Reqs : \A r2 \in Reqs :
        ( /\ r1 # r2
          /\ req[r1].pc = "committed" /\ req[r2].pc = "committed"
          /\ req[r1].user = req[r2].user /\ req[r1].bank = req[r2].bank )
        => SeqRange(req[r1].alloc) \cap SeqRange(req[r2].alloc) = {}
  /\ \A k \in CfgKeys : cfg[k].current = MinNN + Cardinality(RowsOf(k))

\* C3: a request reports the limit exactly when the counter it is about to
\* hand out exceeds max_nosso_numero; every number handed out is at most
\* max, so the counter is never incremented past max + 1; a request that
\* hands out max and then meets the limit leaves the counter at max + 1.
C3_Exhausted ==
  \A r \in Reqs :
     Finished(r) =>
       LET q == req[r]
           n == Len(q.alloc)
       IN /\ q.exhausted => (q.cur > q.max /\ n < q.groups)
          /\ (~q.exhausted /\ q.pc = "committed") => n = q.groups
          /\ \A i \in 1..n : q.alloc[i] <= q.max
          /\ \A i \in 2..n : q.alloc[i] = q.alloc[i - 1] + 1
          /\ n > 0 => q.cur <= q.max + 1
          /\ (q.pc = "committed" /\ q.exhausted /\ n > 0) =>
               /\ q.alloc[n] = q.max
               /\ q.cur = q.max + 1
               /\ cfg[<<q.user, q.bank>>].current = q.max + 1

\* max - 1 and max have been handed out, the third allocation failed and
\* the counter is max + 1
C3_Witness ==
  \E r \in Reqs :
     LET q == req[r] IN
     /\ q.pc = "committed"
     /\ q.exhausted
     /\ q.alloc = <<q.max>>
     /\ \E a \in RowsOf(<<q.user, q.bank>>) :
           boletos[a].nosso_numero = q.max - 1
     /\ \E b \in RowsOf(<<q.user, q.bank>>) : boletos[b].nosso_numero = q.max
     /\ cfg[<<q.user, q.bank>>].current = q.max + 1

\* C4: every BankConfig has min <= current <= max + 1.
C4_CounterInRange ==
  \A k \in CfgKeys :
     /\ cfg[k].min <= cfg[k].current
     /\ cfg[k].current <= cfg[k].max + 1

\* C5: no two non-cancelled boletos of one (tenant, bank) have the same
\* nosso_numero.
C5_UniqueNossoNumero ==
  \A a \in DOMAIN boletos : \A b \in DOMAIN boletos :
     ( /\ a # b
       /\ SameKey(a, b)
       /\ boletos[a].status # "cancelled"
       /\ boletos[b].status # "cancelled" )
     => boletos[a].nosso_numero # boletos[b].nosso_numero

\* C6: a generate_boleto request that raises leaves the persisted counter,
\* the boleto table and the invoice links as they were before it.
C6_RollbackAtomic ==
  [][ \A r \in Reqs :
        (req[r].pc = "validated" /\ req'[r].pc = "failed")
        => (cfg' = cfg /\ boletos' = boletos /\ invoices' = invoices) ]_vars

\* a request failed after it had allocated and flushed at least one boleto;
\* the counter is still the first number it took and none of its numbers is
\* in the table
C6_Witness ==
  \E r \in Reqs :
     /\ req[r].pc = "failed"
     /\ req[r].alloc # <<>>
     /\ cfg[<<req[r].user, req[r].bank>>].current = req[r].alloc[1]
     /\ \A id \in RowsOf(<<req[r].user, req[r].bank>>) :
           boletos[id].nosso_numero \notin SeqRange(req[r].alloc)

\* C7: a batch that meets the limit (or any build error) part way persists
\* nothing: no boleto, no invoice link, no counter advance.
C7_ExhaustedRollsBack ==
  [][ \A r \in Reqs :
        ( /\ req[r].pc = "validated"
          /\ (req'[r].exhausted \/ req'[r].pc = "failed") )
        => (cfg' = cfg /\ boletos' = boletos /\ invoices' = invoices) ]_vars

\* C8: the boleto_<id>.pdf files on disk are those of committed boletos.
C8_NoOrphanPdf == pdfs \subseteq DOMAIN boletos

\* C9: a boleto becomes cancelled only from pending or approved, and the
\* cancel requests leave a registered boleto and its invoice links as they
\* are.
C9_CancelOnlyPendingOrApproved ==
  [][ \A id \in DOMAIN boletos :
        /\ ( /\ boletos[id].status # "cancelled"
             /\ boletos'[id].status = "cancelled" )
           => boletos[id].status \in {"pending", "approved"}
        /\ ( /\ boletos[id].status = "registered"
             /\ (cancel_boleto(CedenteId, id) \/ agente_cancel_boleto(id)) )
           => (boletos' = boletos /\ invoices' = invoices) ]_vars

\* C10: the status of every boleto is one of pending, approved, registered,
\* cancelled; a boleto just created is pending.
C10_StatusDocumented ==
  \A id \in DOMAIN boletos :
     boletos[id].status \in {"pending", "approved", "registered", "cancelled"}

\* C11: delete_invoice leaves an invoice that has a boleto_id as it is, and
\* no invoice is at once soft-deleted and linked to a boleto that is not
\* cancelled, links made by generate_boleto after the deletion included.
C11_DeleteOnlyUnlinked ==
  [][ /\ \A u \in Cedentes : \A i \in InvoiceIds :
           (invoices[i].boleto_id # 0 /\ delete_invoice(u, i))
           => invoices' = invoices
      /\ \A i \in InvoiceIds :
           ~ ( /\ invoices'[i].deleted_at # 0
               /\ invoices'[i].boleto_id \in DOMAIN boletos'
               /\ boletos'[invoices'[i].boleto_id].status # "cancelled" )
    ]_vars

\* C12: once deleted_at of an invoice or of a boleto is set, no later
\* delete_invoice, cancel_boleto or agente_cancel_boleto changes its
\* deleted_at or its deleted_by.
C12_SoftDeleteImmutable ==
  [][ /\ \A i \in InvoiceIds :
           invoices[i].deleted_at # 0
           => /\ invoices'[i].deleted_at = invoices[i].deleted_at
              /\ invoices'[i].deleted_by = invoices[i].deleted_by
      /\ \A id \in DOMAIN boletos :
           boletos[id].deleted_at # 0
           => /\ boletos'[id].deleted_at = boletos[id].deleted_at
              /\ boletos'[id].deleted_by = boletos[id].deleted_by
    ]_vars

\* a boleto cancelled by its cedente and a soft-deleted invoice, both still
\* carrying their first stamp while the three routes stay open to requests
\* on them and a later boleto has been generated
C12_Witness ==
  \E id \in DOMAIN boletos : \E i \in InvoiceIds : \E later \in DOMAIN boletos :
     /\ boletos[id].deleted_at = Stamp(0)
     /\ boletos[id].deleted_by = CedenteId
     /\ invoices[i].deleted_at = Stamp(0)
     /\ invoices[i].deleted_by = CedenteId
     /\ later > id

\* C13: the amount of every boleto that is not cancelled is the sum of the
\* amounts of the invoices now linked to it.
C13_AmountIsSumOfInvoices ==
  \A id \in DOMAIN boletos :
     boletos[id].status # "cancelled"
     => boletos[id].amount =
          SumAmount({i \in InvoiceIds : invoices[i].boleto_id = id})

\* C14: every invoice linked to a boleto has the boleto's tenant and the
\* boleto's payer document.
C14_SameTenantAndPayer ==
  \A i \in InvoiceIds :
     invoices[i].boleto_id \in DOMAIN boletos
     => /\ InvUser(i) = boletos[invoices[i].boleto_id].user_id
        /\ InvDoc(i) = boletos[invoices[i].boleto_id].sacado_doc

\* C15: a remittance request registers exactly the boletos whose records
\* are in the file it returns, in the same step; a request whose emission
\* raises changes no boleto and returns no file.
C15_RegisteredIffInFile ==
  [][ LET newly == {id \in DOMAIN boletos :
                      /\ boletos[id].status # "registered"
                      /\ boletos'[id].status = "registered"}
      IN /\ newly # {} => (remessa'.ok /\ SeqRange(remessa'.ids) = newly)
         /\ (remessa' # remessa /\ remessa'.ok)
              => (newly # {} /\ SeqRange(remessa'.ids) = newly)
         /\ \A b \in Banks :
              (generate_remessa_by_bank(BankCode(b), FALSE)
                 \/ (EmitterRaises(BankCode(b))
                      /\ generate_remessa_by_bank(BankCode(b), TRUE)))
              => (boletos' = boletos /\ ~remessa'.ok)
    ]_vars

\* a file was returned for one cedente: its boletos are registered while an
\* approved boleto of the other cedente at the same bank still is approved
C15_Witness ==
  /\ remessa.ok
  /\ \A n \in 1..Len(remessa.ids) :
        boletos[remessa.ids[n]].status = "registered"
  /\ \E id \in DOMAIN boletos :
        /\ boletos[id].status = "approved"
        /\ boletos[id].bank = remessa.bank
        /\ boletos[id].user_id # remessa.user

\* C16: from one remittance file of a (tenant, bank) to the next, the
\* sequence number of the file name and the sequential number of the
\* headers strictly increase.
C16_RemessaSeqIncreases ==
  [][ ( /\ remessa.ok /\ remessa'.ok
        /\ remessa' # remessa
        /\ remessa'.user = remessa.user
        /\ remessa'.bank = remessa.bank )
      => /\ remessa'.seq > remessa.seq
         /\ remessa'.header_seq > remessa.header_seq ]_vars

\* C17: in a CNAB file the record of the boleto with the smaller id comes
\* before the record of the boleto with the larger id.
C17_RecordsAscendingById ==
  remessa.ok =>
    \A m \in 1..Len(remessa.ids) : \A n \in 1..Len(remessa.ids) :
       m < n => remessa.ids[m] < remessa.ids[n]

\* columns a..b of a record, counted from 1
Cols(line, a, b) == SubSeq(line, a, b)

\* content is the lines separated by CR LF, with nothing after the last
RECURSIVE SplitsInto(_, _)
SplitsInto(content, lines) ==
  IF Len(lines) = 1 THEN content = lines[1]
  ELSE LET w == Len(lines[1]) IN
       /\ Len(content) >= w + 2
       /\ SubSeq(content, 1, w) = lines[1]
       /\ SubSeq(content, w + 1, w + 2) = "\r\n"
       /\ SplitsInto(SubSeq(content, w + 3, Len(content)), Tail(lines))

\* C18: every line of a file of generate_santander_240 is 240 columns wide.
C18_Santander240Columns ==
  (cnab.kind = "santander" /\ ~cnab.raised)
  => \A k \in 1..Len(cnab.lines) : Len(cnab.lines[k]) = 240

\* C19: a Santander file for n boletos has 2n + 4 lines: file header, batch
\* header, segments P and Q of each boleto, batch trailer, file trailer,
\* separated by CR LF with none at the end; the segments are numbered
\* 1..2n, the batch trailer counts 2 + 2n records and the file trailer
\* 2n + 4.
C19_SantanderStructure ==
  (cnab.kind = "santander" /\ ~cnab.raised)
  => LET n == Len(cnab.args[1])
         lines == cnab.lines
     IN /\ Len(lines) = 2 * n + 4
        /\ Cols(lines[1], 8, 8) = "0"
        /\ Cols(lines[2], 8, 8) = "1"
        /\ \A k \in 1..(2 * n) :
             /\ Cols(lines[2 + k], 8, 8) = "3"
             /\ Cols(lines[2 + k], 14, 14) = (IF k % 2 = 1 THEN "P" ELSE "Q")
             /\ Cols(lines[2 + k], 9, 13) = zfill(ToString(k), 5)
        /\ \A k \in 1..n :
             /\ Cols(lines[1 + 2 * k], 63, 77)
                  = ljust(ToString(cnab.args[1][k].id), 15)
             /\ Cols(lines[2 + 2 * k], 34, 73)
                  = format_text(cnab.args[1][k].sacado_name, 40)
        /\ Cols(lines[2 * n + 3], 8, 8) = "5"
        /\ Cols(lines[2 * n + 3], 18, 23) = zfill(ToString(2 + 2 * n), 6)
        /\ Cols(lines[2 * n + 4], 8, 8) = "9"
        /\ Cols(lines[2 * n + 4], 24, 29) = zfill(ToString(2 * n + 4), 6)
        /\ SplitsInto(cnab.content, lines)

\* a Santander file of two boletos was returned
C19_Witness ==
  /\ cnab.kind = "santander"
  /\ ~cnab.raised
  /\ Len(cnab.args[1]) = 2
  /\ Len(cnab.lines) = 8

\* C20: a BMP file for n boletos has n + 2 lines of 400 columns: header,
\* one detail per boleto, trailer, separated by CR LF with none at the end;
\* columns 395-400 of every line hold its line number, so the trailer holds
\* n + 2.
C20_BmpStructure ==
  cnab.kind = "bmp"
  => LET n == Len(cnab.args[1])
         lines == cnab.lines
     IN /\ ~cnab.raised
        /\ Len(lines) = n + 2
        /\ \A k \in 1..(n + 2) :
             /\ Len(lines[k]) = 400
             /\ Cols(lines[k], 395, 400) = zfill(ToString(k), 6)
             /\ Cols(lines[k], 1, 1)
                  = (IF k = 1 THEN "0" ELSE IF k = n + 2 THEN "9" ELSE "1")
        /\ \A k \in 1..n :
             Cols(lines[1 + k], 38, 62)
               = ljust(ToString(cnab.args[1][k].id), 25)
        /\ Cols(lines[n + 2], 395, 400) = zfill(ToString(n + 2), 6)
        /\ SplitsInto(cnab.content, lines)

Returned(fn) == calc.fn = fn /\ calc.done

\* C21: the barcode of calculate_barcode has 44 digits: bank code in 1-3,
\* '9' in 4, the due-date factor in 6-9, the amount in cents in 10-19, the
\* free field '9' + wallet(3) + nosso numero(12) + zeros in 20-44, and in
\* position 5 the mod11 (base 9, r = 1) of the other 43 digits.
C21_Barcode44 ==
  Returned("calculate_barcode")
  => LET a == calc.args
         barcode == calc.out[1]
     IN /\ Len(barcode) = 44
        /\ AllDigits(barcode)
        /\ Cols(barcode, 1, 3) = a[1]
        /\ Cols(barcode, 4, 4) = "9"
        /\ Cols(barcode, 6, 9) = zfill(ToString(a[3] - BaseDateOrdinal), 4)
        /\ Cols(barcode, 10, 19) = zfill(ToString(a[4]), 10)
        /\ Cols(barcode, 20, 44)
             = "9" \o zfill(a[8], 3) \o zfill(a[5], 12) \o Rep("0", 9)
        /\ Cols(barcode, 5, 5)
             = ToString(mod11(Cols(barcode, 1, 4) \o Cols(barcode, 6, 44),
                              9, 1))

\* C22: the digitable line has 54 characters, 47 digits in the layout
\* AAAAA.AAAAA BBBBB.BBBBBB CCCCC.CCCCCC D EEEEEEEEEEEEEE; the last digit of
\* each of the first three groups is the mod10 of the digits before it, and
\* the fields without those three digits, put back in order, are the
\* barcode.
C22_DigitableLine54 ==
  Returned("calculate_barcode")
  => LET barcode == calc.out[1]
         line == calc.out[2]
         g1 == Cols(line, 1, 5) \o Cols(line, 7, 11)
         g2 == Cols(line, 13, 17) \o Cols(line, 19, 24)
         g3 == Cols(line, 26, 30) \o Cols(line, 32, 37)
         g4 == Cols(line, 39, 39)
         g5 == Cols(line, 41, 54)
     IN /\ Len(line) = 54
        /\ Cols(line, 6, 6) = "." /\ Cols(line, 18, 18) = "."
        /\ Cols(line, 31, 31) = "."
        /\ \A p \in {12, 25, 38, 40} : Cols(line, p, p) = " "
        /\ AllDigits(Concat(<<g1, g2, g3, g4, g5>>))
        /\ Cols(g1, 10, 10) = ToString(mod10(Cols(g1, 1, 9)))
        /\ Cols(g2, 11, 11) = ToString(mod10(Cols(g2, 1, 10)))
        /\ Cols(g3, 11, 11) = ToString(mod10(Cols(g3, 1, 10)))
        /\ barcode = Concat(<<Cols(g1, 1, 4), g4, g5, Cols(g1, 5, 9),
                              Cols(g2, 1, 10), Cols(g3, 1, 10)>>)

\* C23: calcular_dv_bmp returns '0' for wallet "109" with nosso numero 1
\* and 'P' for wallet "1" with nosso numero 1.
C23_DvBmpExamples ==
  Returned("calcular_dv_bmp")
  => /\ calc.args = <<"109", "1">> => calc.out = "0"
     /\ calc.args = <<"1", "1">> => calc.out = "P"

\* the digits of a text weighted 2, 3, .., 9, 2, .. from the right, from
\* the i-th from the right on
RECURSIVE WeightedDigits(_, _)
WeightedDigits(text, i) ==
  IF i > Len(text) THEN 0
  ELSE DigitVal(Cols(text, Len(text) - i + 1, Len(text) - i + 1))
         * (2 + ((i - 1) % 8))
       + WeightedDigits(text, i + 1)

C25_FormatKeepsDocument ==
  LET x == calc.args[1] IN
  /\ (Returned("format_cpf") /\ AllDigits(x) /\ Len(x) = 11)
       => /\ validate_cpf_cnpj(calc.out) = validate_cpf_cnpj(x)
          /\ Digits(calc.out) = x
          /\ Len(calc.out) = 14
  /\ (Returned("format_cnpj") /\ AllDigits(x) /\ Len(x) = 14)
       => /\ validate_cpf_cnpj(calc.out) = validate_cpf_cnpj(x)
          /\ Digits(calc.out) = x
          /\ Len(calc.out) = 18
  /\ (Returned("validate_cpf_cnpj") /\ Len(Digits(x)) \notin {11, 14})
       => calc.out = FALSE

\* a valid CPF was formatted and the formatted text validates
C25_Witness ==
  /\ Returned("format_cpf")
  /\ calc.args[1] = "12345678909"
  /\ calc.out = "123.456.789-09"
  /\ validate_cpf_cnpj(calc.out)

\* the name of the root element, without its namespace
LocalName(tag) ==
  IF Contains("}", tag)
  THEN SubSeq(tag, Len(BeforeFirst("}", tag)) + 2, Len(tag))
  ELSE tag

\* C26: parse_file returns a record only for a well-formed document whose
\* root element name contains 'nfe' or 'cte' (in any case) and that has the
\* payer name, the payer tax id, the amount, the issue date and the
\* document number; it never fills in a default for one of them.
C26_XmlRequiredFields ==
  (Returned("parse_file") /\ calc.out.type # "None")
  => LET file == calc.args[1]
         name == lower(LocalName(file.tag))
     IN /\ file.parses
        /\ Contains("nfe", name) \/ Contains("cte", name)
        /\ file.payer # "none"
        /\ file.xNome
        /\ file.doc # ""
        /\ file.vNF
        /\ file.date # ""
        /\ file.nNF

\* C27: a generate_boleto request for a bank whose configuration is missing
\* or not active is rejected, and the rejection and its redirect change
\* neither the counter, nor the boletos, nor the invoices, nor the files.
C27_DisabledBankRejected ==
  [][\A r \in Reqs :
       /\ (req[r].pc = "idle" /\ req'[r].pc # "idle")
            => IF BankSelectionValid(SessionUser(r), "santander")
               THEN req'[r].pc = "validated"
               ELSE /\ req'[r].pc = "rejected"
                    /\ UNCHANGED <<cfg, boletos, invoices, pdfs>>
       /\ (req[r].pc = "rejected" /\ req'[r] # req[r])
            => /\ req'[r] = IdleReq
               /\ UNCHANGED <<cfg, boletos, invoices, pdfs>>]_vars

\* a request of the first cedente was rejected with Santander disabled
\* after a boleto had been generated there, and one of the cedente without
\* configuration was rejected
C27_Witness ==
  /\ req[1].pc = "rejected"
  /\ req[2].pc = "rejected"
  /\ ~cfg[<<CedenteId, "santander">>].is_active
  /\ boletos # <<>>

\* C28: format_num(v, n) never returns a text whose length differs from n.
C28_FormatNumWidth ==
  Returned("format_num") => Len(calc.out) = calc.args[2]

\* the status a boleto has before any approval: the default of the column
\* or the one generate_boleto gives
InitialStatus == {"pending", "printed"}

\* C29: registered and cancelled boletos keep their status, and the only
\* status changes are initial -> approved, approved -> registered and
\* initial or approved -> cancelled; so a registered boleto was approved
\* before.
C29_StatusTransitions ==
  [][\A id \in DOMAIN boletos :
       LET old == boletos[id].status
           new == boletos'[id].status
       IN new # old
          => \/ old \in InitialStatus /\ new = "approved"
             \/ old = "approved" /\ new = "registered"
             \/ old \in InitialStatus \cup {"approved"} /\ new = "cancelled"]_vars

\* one boleto was registered and another was cancelled
C29_Witness ==
  \E a \in DOMAIN boletos, b \in DOMAIN boletos :
     /\ boletos[a].status = "registered"
     /\ boletos[b].status = "cancelled"
     /\ remessa.ok

\* C30: in every state reached by interleaved approve, remittance and
\* cancel requests, a boleto has deleted_at set exactly when its status is
\* cancelled.
C30_DeletedIffCancelled ==
  \A id \in DOMAIN boletos :
     (boletos[id].deleted_at # 0) <=> (boletos[id].status = "cancelled")

====
